---- MODULE Spec2Model ----
(***************************************************************************)
(* Model of modules/planning/scenarios/util/util.cc (Apollo planning):     *)
(* the overlap lookup, the pull-over classifiers, the two proximity        *)
(* evaluators and the park-and-go checks.                                  *)
(*                                                                         *)
(* Numbers.  The code computes on doubles; the model uses exact fixed      *)
(* point:                                                                  *)
(*   lengths (x, y, s, l)  integers, one unit = 0.5 m                      *)
(*   speeds                integers, one unit = 0.1 m/s                    *)
(*   angles                records [t, q] standing for                     *)
(*                         t * 0.1 rad + q * (pi/2) rad.                   *)
(* Since pi is irrational the pair (t, q) of an angle is unique, a full    *)
(* turn is exactly q + 4, and two angles whose t parts differ by at most   *)
(* 15 (1.5 rad < pi/2) are ordered lexicographically on (q, t).            *)
(***************************************************************************)
EXTENDS Integers, Sequences, FiniteSets, TLC

VARIABLES
  pull_over_status,     \* PlanningContext::planning_status().pull_over()
  vehicle_state,        \* VehicleStateProvider: x, y, heading, linear_velocity
  reference_line_info,  \* reference line, AdcSlBoundary().end_s(), overlaps
  scenario_config,      \* ScenarioPullOverConfig
  park_and_go_config,   \* ScenarioParkAndGoConfig
  frame,                \* Frame: reference_line_info() list and obstacles()
  fn,                   \* the function called last ("none" before any call)
  args,                 \* its arguments that are not part of the state above
  ret                   \* its return value

vars == <<pull_over_status, vehicle_state, reference_line_info, scenario_config,
          park_and_go_config, frame, fn, args, ret>>

-----------------------------------------------------------------------------
(* Bounds of the model *)

MaxCoord == 2
MaxFrontEdge == 3
MaxObstacles == 2
MaxOverlaps == 2

-----------------------------------------------------------------------------
(* Angles *)

Angle(t, q) == [t |-> t, q |-> q]
Zero == Angle(0, 0)

AngSub(a, b) == Angle(a.t - b.t, a.q - b.q)
AngNeg(a) == Angle(-a.t, -a.q)

AngLess(a, b) == a.q < b.q \/ (a.q = b.q /\ a.t < b.t)
AngLeq(a, b) == a = b \/ AngLess(a, b)

\* std::fabs on an angle
AngFabs(a) == IF AngLess(a, Zero) THEN AngNeg(a) ELSE a

\* common::math::NormalizeAngle: the angle brought into (-pi, pi] by whole turns
NormalizeAngle(a) ==
  LET r == a.q % 4
  IN  CASE r = 0 -> Angle(a.t, 0)
        [] r = 1 -> Angle(a.t, 1)
        [] r = 3 -> Angle(a.t, -1)
        [] r = 2 -> IF a.t <= 0 THEN Angle(a.t, 2) ELSE Angle(a.t, -2)

\* std::fabs on a length
Fabs(v) == IF v < 0 THEN -v ELSE v

-----------------------------------------------------------------------------
(* Reference line: a straight line through the origin, heading east, north *)
(* or west.  XYToSL projects a point on it: s along the line, l to its     *)
(* left.                                                                   *)

Vec2d(x, y) == [x |-> x, y |-> y]

XYToSL(reference_line, p) ==
  CASE reference_line.dir = "east"  -> [s |-> p.x, l |-> p.y]
    [] reference_line.dir = "north" -> [s |-> p.y, l |-> -p.x]
    [] reference_line.dir = "west"  -> [s |-> -p.x, l |-> -p.y]

\* reference_line.GetReferencePoint(s).ToPathPoint(s).theta()
ReferenceTheta(reference_line, s) ==
  CASE reference_line.dir = "east"  -> Angle(0, 0)
    [] reference_line.dir = "north" -> Angle(0, 1)
    [] reference_line.dir = "west"  -> Angle(0, 2)

\* Vec2d::DistanceTo(other) <= bound, on the squares
DistanceToLeq(p, other, bound) ==
  /\ bound >= 0
  /\ (p.x - other.x) * (p.x - other.x) + (p.y - other.y) * (p.y - other.y)
       <= bound * bound

-----------------------------------------------------------------------------
(* Vehicle configuration (VehicleConfigHelper::GetConfig().vehicle_param()) *)

vehicle_param ==
  [max_abs_speed_when_stopped |-> 1,
   length |-> 4, width |-> 2, back_edge_to_center |-> 1]

\* constexpr double kStartParkCheckRange = 3.0 (metres), in half-metre units
kStartParkCheckRange == 6
\* const double kLBuffer = 0.5 (metres), in half-metre units
kLBuffer == 1
\* const double kHeadingBuffer = 0.1 (rad): t part of the angle, q part 0
kHeadingBuffer == 1

-----------------------------------------------------------------------------
(* Proximity evaluators *)

\* mutant: the lateral difference without std::fabs
CheckPullOverPositionBySL_NoFabs(rli, cfg, adc_position, adc_theta, target_position, target_theta, check_s) ==
  LET target_sl == XYToSL(rli.reference_line, target_position)
      adc_position_sl == XYToSL(rli.reference_line, adc_position)
      s_diff == target_sl.s - adc_position_sl.s
      l_diff == target_sl.l - adc_position_sl.l
      theta_diff == AngFabs(NormalizeAngle(AngSub(target_theta, adc_theta)))
      base == /\ l_diff <= cfg.max_l_error_to_end_point
              /\ AngLeq(theta_diff, cfg.max_theta_error_to_end_point)
  IN  IF check_s
        THEN base /\ s_diff >= 0 /\ s_diff <= cfg.max_s_error_to_end_point
        ELSE base

\* mutant: the station difference compared by magnitude only
CheckPullOverPositionBySL_AbsS(rli, cfg, adc_position, adc_theta, target_position, target_theta, check_s) ==
  LET target_sl == XYToSL(rli.reference_line, target_position)
      adc_position_sl == XYToSL(rli.reference_line, adc_position)
      s_diff == target_sl.s - adc_position_sl.s
      l_diff == Fabs(target_sl.l - adc_position_sl.l)
      theta_diff == AngFabs(NormalizeAngle(AngSub(target_theta, adc_theta)))
      base == /\ l_diff <= cfg.max_l_error_to_end_point
              /\ AngLeq(theta_diff, cfg.max_theta_error_to_end_point)
  IN  IF check_s
        THEN base /\ Fabs(s_diff) <= cfg.max_s_error_to_end_point
        ELSE base

CheckPullOverPositionBySL(rli, cfg, adc_position, adc_theta, target_position, target_theta, check_s) ==
  LET target_sl == XYToSL(rli.reference_line, target_position)
      adc_position_sl == XYToSL(rli.reference_line, adc_position)
      s_diff == target_sl.s - adc_position_sl.s
      l_diff == Fabs(target_sl.l - adc_position_sl.l)
      theta_diff == AngFabs(NormalizeAngle(AngSub(target_theta, adc_theta)))
      base == /\ l_diff <= cfg.max_l_error_to_end_point
              /\ AngLeq(theta_diff, cfg.max_theta_error_to_end_point)
  IN  IF check_s
        THEN base /\ s_diff >= 0 /\ s_diff <= cfg.max_s_error_to_end_point
        ELSE base

CheckPullOverPositionByDistance(cfg, adc_position, adc_theta, target_position, target_theta) ==
  LET theta_diff == AngFabs(NormalizeAngle(AngSub(target_theta, adc_theta)))
  IN  /\ DistanceToLeq(adc_position, target_position,
                       cfg.max_distance_error_to_end_point)
      /\ AngLeq(theta_diff, cfg.max_theta_error_to_end_point)

-----------------------------------------------------------------------------
(* Pull-over classifiers *)

AdcPosition == Vec2d(vehicle_state.x, vehicle_state.y)
TargetPosition == Vec2d(pull_over_status.x, pull_over_status.y)

\* mutant: the guard without its has_theta test
PullOverStatusNotSet_NoTheta(pos) ==
  \/ ~pos.is_feasible
  \/ ~pos.has_position
  \/ ~pos.has_x
  \/ ~pos.has_y

\* the guard of lines 88-90, 149-151 and 171-173
PullOverStatusNotSet(pos) ==
  \/ ~pos.is_feasible
  \/ ~pos.has_position
  \/ ~pos.has_x
  \/ ~pos.has_y
  \/ ~pos.has_theta

\* mutant: the speed check ahead of the overshoot check
CheckADCPullOver_SpeedFirst(rli, cfg) ==
  IF PullOverStatusNotSet(pull_over_status) THEN "UNKNOWN"
  ELSE
    LET pull_over_sl == XYToSL(rli.reference_line, TargetPosition)
        adc_front_edge_s == rli.adc_end_s
        distance == adc_front_edge_s - pull_over_sl.s
        adc_speed == vehicle_state.linear_velocity
        max_adc_stop_speed == vehicle_param.max_abs_speed_when_stopped
    IN  IF adc_speed > max_adc_stop_speed THEN "APPROACHING"
        ELSE IF distance >= cfg.pass_destination_threshold THEN "PASS_DESTINATION"
        ELSE IF distance <= -kStartParkCheckRange THEN "APPROACHING"
        ELSE IF CheckPullOverPositionBySL(rli, cfg, AdcPosition,
                                          vehicle_state.heading, TargetPosition,
                                          pull_over_status.theta, TRUE)
               THEN "PARK_COMPLETE"
               ELSE "PARK_FAIL"

\* mutant: the speed check left out
CheckADCPullOver_NoSpeedCheck(rli, cfg) ==
  IF PullOverStatusNotSet(pull_over_status) THEN "UNKNOWN"
  ELSE
    LET pull_over_sl == XYToSL(rli.reference_line, TargetPosition)
        adc_front_edge_s == rli.adc_end_s
        distance == adc_front_edge_s - pull_over_sl.s
        adc_speed == vehicle_state.linear_velocity
        max_adc_stop_speed == vehicle_param.max_abs_speed_when_stopped
    IN  IF distance >= cfg.pass_destination_threshold THEN "PASS_DESTINATION"
        ELSE IF distance <= -kStartParkCheckRange THEN "APPROACHING"
        ELSE IF CheckPullOverPositionBySL(rli, cfg, AdcPosition,
                                          vehicle_state.heading, TargetPosition,
                                          pull_over_status.theta, TRUE)
               THEN "PARK_COMPLETE"
               ELSE "PARK_FAIL"

\* mutant: the far-away check left out
CheckADCPullOver_NoFarCheck(rli, cfg) ==
  IF PullOverStatusNotSet(pull_over_status) THEN "UNKNOWN"
  ELSE
    LET pull_over_sl == XYToSL(rli.reference_line, TargetPosition)
        adc_front_edge_s == rli.adc_end_s
        distance == adc_front_edge_s - pull_over_sl.s
        adc_speed == vehicle_state.linear_velocity
        max_adc_stop_speed == vehicle_param.max_abs_speed_when_stopped
    IN  IF distance >= cfg.pass_destination_threshold THEN "PASS_DESTINATION"
        ELSE IF adc_speed > max_adc_stop_speed THEN "APPROACHING"
        ELSE IF CheckPullOverPositionBySL(rli, cfg, AdcPosition,
                                          vehicle_state.heading, TargetPosition,
                                          pull_over_status.theta, TRUE)
               THEN "PARK_COMPLETE"
               ELSE "PARK_FAIL"

CheckADCPullOver(rli, cfg) ==
  IF PullOverStatusNotSet(pull_over_status) THEN "UNKNOWN"
  ELSE
    LET pull_over_sl == XYToSL(rli.reference_line, TargetPosition)
        adc_front_edge_s == rli.adc_end_s
        distance == adc_front_edge_s - pull_over_sl.s
        adc_speed == vehicle_state.linear_velocity
        max_adc_stop_speed == vehicle_param.max_abs_speed_when_stopped
    IN  IF distance >= cfg.pass_destination_threshold THEN "PASS_DESTINATION"
        ELSE IF adc_speed > max_adc_stop_speed THEN "APPROACHING"
        ELSE IF distance <= -kStartParkCheckRange THEN "APPROACHING"
        ELSE IF CheckPullOverPositionBySL(rli, cfg, AdcPosition,
                                          vehicle_state.heading, TargetPosition,
                                          pull_over_status.theta, TRUE)
               THEN "PARK_COMPLETE"
               ELSE "PARK_FAIL"

CheckADCPullOverPathPoint(rli, cfg, path_point) ==
  IF PullOverStatusNotSet(pull_over_status) THEN "UNKNOWN"
  ELSE IF CheckPullOverPositionBySL(rli, cfg,
                                    Vec2d(path_point.x, path_point.y),
                                    path_point.theta, TargetPosition,
                                    pull_over_status.theta, FALSE)
         THEN "PARK_COMPLETE"
         ELSE "PARK_FAIL"

CheckADCPullOverOpenSpace(cfg) ==
  IF PullOverStatusNotSet(pull_over_status) THEN "UNKNOWN"
  ELSE IF CheckPullOverPositionByDistance(cfg, AdcPosition,
                                          vehicle_state.heading, TargetPosition,
                                          pull_over_status.theta)
         THEN "PARK_COMPLETE"
         ELSE "PARK_FAIL"

-----------------------------------------------------------------------------
(* Park-and-go *)

\* mutant: the two bounds not strict
CheckADCParkAndGoCruiseCompleted_Leq(rli, cfg) ==
  LET adc_heading == vehicle_state.heading
      adc_position_sl == XYToSL(rli.reference_line, AdcPosition)
      path_point_theta == ReferenceTheta(rli.reference_line, adc_position_sl.s)
  IN  IF /\ Fabs(adc_position_sl.l) <= kLBuffer
         /\ AngLeq(AngFabs(AngSub(adc_heading, path_point_theta)),
                   Angle(kHeadingBuffer, 0))
        THEN "CRUISE_COMPLETE"
        ELSE "CRUISING"

CheckADCParkAndGoCruiseCompleted(rli, cfg) ==
  LET adc_heading == vehicle_state.heading
      adc_position_sl == XYToSL(rli.reference_line, AdcPosition)
      path_point_theta == ReferenceTheta(rli.reference_line, adc_position_sl.s)
  IN  IF /\ Fabs(adc_position_sl.l) < kLBuffer
         /\ AngLess(AngFabs(AngSub(adc_heading, path_point_theta)),
                    Angle(kHeadingBuffer, 0))
        THEN "CRUISE_COMPLETE"
        ELSE "CRUISING"

CheckADCHeading(adc_position, adc_heading, rli, heading_diff_to_reference_line) ==
  LET adc_position_sl == XYToSL(rli.reference_line, adc_position)
      path_point_theta == ReferenceTheta(rli.reference_line, adc_position_sl.s)
  IN  AngLess(AngFabs(NormalizeAngle(AngSub(adc_heading, path_point_theta))),
              heading_diff_to_reference_line)

-----------------------------------------------------------------------------
(* Boxes and polygons, for headings that are whole quarter turns.  A       *)
(* polygon is an axis-aligned rectangle in doubled coordinates (so that    *)
(* half lengths stay integers).                                            *)

Cos(a) == CASE a.t = 0 /\ a.q % 4 = 0 -> 1
            [] a.t = 0 /\ a.q % 4 = 2 -> -1
            [] a.t = 0 /\ a.q % 4 \in {1, 3} -> 0

Sin(a) == CASE a.t = 0 /\ a.q % 4 = 1 -> 1
            [] a.t = 0 /\ a.q % 4 = 3 -> -1
            [] a.t = 0 /\ a.q % 4 \in {0, 2} -> 0

Box2d(center, heading, length, width) ==
  [center |-> center, heading |-> heading, length |-> length, width |-> width]

Shift(box, shift_vec) ==
  [box EXCEPT !.center = Vec2d(box.center.x + shift_vec.x,
                               box.center.y + shift_vec.y)]

Polygon2d(box) ==
  LET dx == IF Cos(box.heading) # 0 THEN box.length ELSE box.width
      dy == IF Cos(box.heading) # 0 THEN box.width ELSE box.length
  IN  [min_x |-> 2 * box.center.x - dx, max_x |-> 2 * box.center.x + dx,
       min_y |-> 2 * box.center.y - dy, max_y |-> 2 * box.center.y + dy]

\* Polygon2d::HasOverlap: the closed polygons share a point
HasOverlap(a, b) ==
  ~ \/ a.max_x < b.min_x
    \/ b.max_x < a.min_x
    \/ a.max_y < b.min_y
    \/ b.max_y < a.min_y

RECURSIVE AnyOverlapFrom(_, _, _)
\* the loop of lines 312-317 from obstacle i on
AnyOverlapFrom(adc_polygon, obs, i) ==
  IF i > Len(obs) THEN FALSE
  ELSE IF HasOverlap(adc_polygon, obs[i]) THEN TRUE
  ELSE AnyOverlapFrom(adc_polygon, obs, i + 1)

\* mutant: the vehicle box not shifted forward
CheckADCSurroundObstacles_NoShift(adc_position, adc_heading, fr, front_obstacle_buffer) ==
  LET adc_length == vehicle_param.length
      adc_width == vehicle_param.width
      adc_box == Box2d(adc_position, adc_heading, adc_length, adc_width)
      adc_polygon == Polygon2d(adc_box)
  IN  AnyOverlapFrom(adc_polygon, fr.obstacles, 1)

CheckADCSurroundObstacles(adc_position, adc_heading, fr, front_obstacle_buffer) ==
  LET adc_length == vehicle_param.length
      adc_width == vehicle_param.width
      adc_box == Box2d(adc_position, adc_heading, adc_length, adc_width)
      shift_distance == front_obstacle_buffer + vehicle_param.back_edge_to_center
      shift_vec == Vec2d(shift_distance * Cos(adc_heading),
                         shift_distance * Sin(adc_heading))
      adc_polygon == Polygon2d(Shift(adc_box, shift_vec))
  IN  AnyOverlapFrom(adc_polygon, fr.obstacles, 1)

CheckADCReadyToCruise(fr, cfg) ==
  LET adc_position == AdcPosition
      adc_heading == vehicle_state.heading
      rli == Head(fr.reference_line_info)
      is_near_front_obstacle ==
        CheckADCSurroundObstacles(adc_position, adc_heading, fr,
                                  cfg.front_obstacle_buffer)
      heading_align_w_reference_line ==
        CheckADCHeading(adc_position, adc_heading, rli, cfg.heading_buffer)
  IN  IF ~is_near_front_obstacle /\ heading_align_w_reference_line
        THEN TRUE
        ELSE FALSE

-----------------------------------------------------------------------------
(* Overlap lookup.  A returned pointer is the list it points into and the  *)
(* index of the entry; nullptr is Nullptr.                                 *)

Nullptr == [list |-> "nullptr", index |-> 0]

RECURSIVE ScanOverlaps(_, _, _, _)
\* the range-for loops of lines 44-48, 53-57, 62-66 and 71-75 from entry i on
ScanOverlaps(name, overlaps, overlap_id, i) ==
  IF i > Len(overlaps) THEN Nullptr
  ELSE IF overlaps[i].object_id = overlap_id
         THEN [list |-> name, index |-> i]
         ELSE ScanOverlaps(name, overlaps, overlap_id, i + 1)

\* mutant: the stop-sign branch scanning the signal list
GetOverlapOnReferenceLine_WrongList(rli, overlap_id, overlap_type) ==
  LET map_path == rli.reference_line
  IN  IF overlap_type = "SIGNAL"
        THEN ScanOverlaps("signal_overlaps", map_path.signal_overlaps,
                          overlap_id, 1)
      ELSE IF overlap_type = "STOP_SIGN"
        THEN ScanOverlaps("signal_overlaps", map_path.signal_overlaps,
                          overlap_id, 1)
      ELSE IF overlap_type = "PNC_JUNCTION"
        THEN ScanOverlaps("pnc_junction_overlaps",
                          map_path.pnc_junction_overlaps, overlap_id, 1)
      ELSE IF overlap_type = "YIELD_SIGN"
        THEN ScanOverlaps("yield_sign_overlaps", map_path.yield_sign_overlaps,
                          overlap_id, 1)
      ELSE Nullptr

GetOverlapOnReferenceLine(rli, overlap_id, overlap_type) ==
  LET map_path == rli.reference_line
  IN  IF overlap_type = "SIGNAL"
        THEN ScanOverlaps("signal_overlaps", map_path.signal_overlaps,
                          overlap_id, 1)
      ELSE IF overlap_type = "STOP_SIGN"
        THEN ScanOverlaps("stop_sign_overlaps", map_path.stop_sign_overlaps,
                          overlap_id, 1)
      ELSE IF overlap_type = "PNC_JUNCTION"
        THEN ScanOverlaps("pnc_junction_overlaps",
                          map_path.pnc_junction_overlaps, overlap_id, 1)
      ELSE IF overlap_type = "YIELD_SIGN"
        THEN ScanOverlaps("yield_sign_overlaps", map_path.yield_sign_overlaps,
                          overlap_id, 1)
      ELSE Nullptr

-----------------------------------------------------------------------------
(* Inputs *)

Coords == 0 .. MaxCoord
Positions == [x : Coords, y : Coords]

\* speeds below, at and above max_abs_speed_when_stopped
Speeds == 0 .. (vehicle_param.max_abs_speed_when_stopped + 1)

\* front-edge stations around target_s - kStartParkCheckRange and around
\* target_s + pass_destination_threshold
FrontEdgeS ==
  ((-kStartParkCheckRange) .. (1 - kStartParkCheckRange)) \cup (0 .. MaxFrontEdge)

\* a pull-over status message: a field that is not set reads as its default 0,
\* and the fields of a position that is not set are not set
PullOverStatuses(thetas) ==
  { pos \in [is_feasible : BOOLEAN, has_position : BOOLEAN, has_x : BOOLEAN,
             has_y : BOOLEAN, has_theta : BOOLEAN,
             x : Coords, y : Coords, theta : thetas \cup {Zero}] :
      /\ ~pos.has_position => (~pos.has_x /\ ~pos.has_y)
      /\ ~pos.has_x => pos.x = 0
      /\ ~pos.has_y => pos.y = 0
      /\ ~pos.has_theta => pos.theta = Zero }

ReferenceLine(dir, sig, stop, pnc, yield) ==
  [dir |-> dir, signal_overlaps |-> sig, stop_sign_overlaps |-> stop,
   pnc_junction_overlaps |-> pnc, yield_sign_overlaps |-> yield]

ReferenceLineInfo(dir, end_s) ==
  [reference_line |-> ReferenceLine(dir, <<>>, <<>>, <<>>, <<>>),
   adc_end_s |-> end_s]

\* two ScenarioPullOverConfig messages
PullOverConfigs ==
  { [pass_destination_threshold |-> 2, max_l_error_to_end_point |-> 1,
     max_theta_error_to_end_point |-> Angle(1, 0),
     max_s_error_to_end_point |-> 1, max_distance_error_to_end_point |-> 1],
    [pass_destination_threshold |-> 1, max_l_error_to_end_point |-> 0,
     max_theta_error_to_end_point |-> Zero,
     max_s_error_to_end_point |-> 2, max_distance_error_to_end_point |-> 2] }

\* two ScenarioParkAndGoConfig messages
ParkAndGoConfigs ==
  { [front_obstacle_buffer |-> 1, heading_buffer |-> Angle(1, 0)],
    [front_obstacle_buffer |-> 3, heading_buffer |-> Angle(2, 0)] }

DefaultPullOverStatus ==
  [is_feasible |-> TRUE, has_position |-> TRUE, has_x |-> TRUE, has_y |-> TRUE,
   has_theta |-> TRUE, x |-> 1, y |-> 0, theta |-> Zero]
DefaultVehicleState == [x |-> 0, y |-> 0, heading |-> Zero, linear_velocity |-> 0]
DefaultPullOverConfig == CHOOSE c \in PullOverConfigs : c.max_l_error_to_end_point = 1
DefaultParkAndGoConfig == CHOOSE c \in ParkAndGoConfigs : c.front_obstacle_buffer = 1
DefaultFrame ==
  [reference_line_info |-> <<ReferenceLineInfo("east", 0)>>, obstacles |-> <<>>]

NoCall == fn = "none" /\ args = <<>> /\ ret = "none"

Return(f, a, r) ==
  /\ fn = "none"
  /\ fn' = f
  /\ args' = a
  /\ ret' = r
  /\ UNCHANGED <<pull_over_status, vehicle_state, reference_line_info,
                 scenario_config, park_and_go_config, frame>>

-----------------------------------------------------------------------------
(* Calls *)

CallCheckADCPullOver ==
  Return("CheckADCPullOver", <<>>,
         CheckADCPullOver(reference_line_info, scenario_config))

CallCheckADCPullOverPathPoint(path_point) ==
  Return("CheckADCPullOverPathPoint", [path_point |-> path_point],
         CheckADCPullOverPathPoint(reference_line_info, scenario_config,
                                   path_point))

CallCheckADCPullOverOpenSpace ==
  Return("CheckADCPullOverOpenSpace", <<>>,
         CheckADCPullOverOpenSpace(scenario_config))

CallCheckADCParkAndGoCruiseCompleted ==
  Return("CheckADCParkAndGoCruiseCompleted", <<>>,
         CheckADCParkAndGoCruiseCompleted(reference_line_info,
                                          park_and_go_config))

CallCheckPullOverPositionBySL(target_position, target_theta, check_s) ==
  Return("CheckPullOverPositionBySL",
         [adc_position |-> AdcPosition, adc_theta |-> vehicle_state.heading,
          target_position |-> target_position, target_theta |-> target_theta,
          check_s |-> check_s],
         CheckPullOverPositionBySL(reference_line_info, scenario_config,
                                   AdcPosition, vehicle_state.heading,
                                   target_position, target_theta, check_s))

CallCheckPullOverPositionByDistance(target_position, target_theta) ==
  Return("CheckPullOverPositionByDistance",
         [adc_position |-> AdcPosition, adc_theta |-> vehicle_state.heading,
          target_position |-> target_position, target_theta |-> target_theta],
         CheckPullOverPositionByDistance(scenario_config, AdcPosition,
                                         vehicle_state.heading,
                                         target_position, target_theta))

CallCheckADCHeading(heading_diff_to_reference_line) ==
  Return("CheckADCHeading",
         [adc_position |-> AdcPosition, adc_heading |-> vehicle_state.heading,
          heading_diff_to_reference_line |-> heading_diff_to_reference_line],
         CheckADCHeading(AdcPosition, vehicle_state.heading,
                         reference_line_info, heading_diff_to_reference_line))

CallCheckADCReadyToCruise ==
  Return("CheckADCReadyToCruise", <<>>,
         CheckADCReadyToCruise(frame, park_and_go_config))

CallGetOverlapOnReferenceLine(overlap_id, overlap_type) ==
  Return("GetOverlapOnReferenceLine",
         [overlap_id |-> overlap_id, overlap_type |-> overlap_type],
         GetOverlapOnReferenceLine(reference_line_info, overlap_id,
                                   overlap_type))

-----------------------------------------------------------------------------
(* Spec: one call of a pull-over classifier entry point or of the          *)
(* park-and-go cruise check in a planning cycle whose target, vehicle      *)
(* state, reference line and tolerances are drawn from the sets above.     *)

TargetThetas == {Zero, Angle(1, 0)}
AdcHeadings == {Zero, Angle(-1, 0)}
PathPoints == {[x |-> c, y |-> c, theta |-> Zero] : c \in {0, MaxCoord}}

Init ==
  /\ pull_over_status \in PullOverStatuses(TargetThetas)
  /\ vehicle_state \in [x : Coords, y : Coords, heading : AdcHeadings,
                        linear_velocity : Speeds]
  /\ reference_line_info \in
       {ReferenceLineInfo(d, e) : d \in {"east", "north"}, e \in FrontEdgeS}
  /\ scenario_config \in PullOverConfigs
  /\ park_and_go_config = DefaultParkAndGoConfig
  /\ frame = DefaultFrame
  /\ NoCall

Next ==
  \/ CallCheckADCPullOver
  \/ \E path_point \in PathPoints : CallCheckADCPullOverPathPoint(path_point)
  \/ CallCheckADCPullOverOpenSpace
  \/ CallCheckADCParkAndGoCruiseCompleted

Spec == Init /\ [][Next]_vars

-----------------------------------------------------------------------------
(* SpecHeading: one call of a proximity evaluator, of CheckADCHeading or   *)
(* of the park-and-go cruise check, with headings that lie whole and half  *)
(* turns apart.                                                            *)

Headings == [t : -1 .. 1, q : {-2, 0, 2, 4}]
ArgThetas == [t : {0, 1}, q : {-4, 0}]

InitHeading ==
  /\ pull_over_status \in
       {DefaultPullOverStatus, [DefaultPullOverStatus EXCEPT !.is_feasible = FALSE]}
  /\ vehicle_state \in [x : Coords, y : Coords, heading : Headings,
                        linear_velocity : {0, 2}]
  /\ reference_line_info \in {ReferenceLineInfo(d, 0) : d \in {"east", "west"}}
  /\ scenario_config \in PullOverConfigs
  /\ park_and_go_config \in ParkAndGoConfigs
  /\ frame = DefaultFrame
  /\ NoCall

NextHeading ==
  \/ CallCheckADCParkAndGoCruiseCompleted
  \/ \E target_position \in Positions, target_theta \in ArgThetas,
        check_s \in BOOLEAN :
       CallCheckPullOverPositionBySL(target_position, target_theta, check_s)
  \/ \E target_position \in Positions, target_theta \in ArgThetas :
       CallCheckPullOverPositionByDistance(target_position, target_theta)
  \/ \E cfg \in ParkAndGoConfigs : CallCheckADCHeading(cfg.heading_buffer)

SpecHeading == InitHeading /\ [][NextHeading]_vars

-----------------------------------------------------------------------------
(* SpecReady: one call of CheckADCReadyToCruise, the vehicle heading a     *)
(* whole number of quarter turns, the frame holding one or two reference   *)
(* lines and up to MaxObstacles obstacles.                                 *)

SeqsUpTo(S, n) == UNION {[1 .. k -> S] : k \in 0 .. n}

\* perception polygons ahead of, behind and to the left of the grid
ObstaclePolygons ==
  { [min_x |-> 10, max_x |-> 12, min_y |-> -1, max_y |-> 1],
    [min_x |-> -8, max_x |-> -6, min_y |-> -1, max_y |-> 1],
    [min_x |-> -1, max_x |-> 1, min_y |-> 10, max_y |-> 12] }

InitReady ==
  /\ pull_over_status = DefaultPullOverStatus
  /\ vehicle_state \in [x : Coords, y : Coords, heading : [t : {0}, q : 0 .. 4],
                        linear_velocity : {0}]
  /\ reference_line_info = ReferenceLineInfo("east", 0)
  /\ scenario_config = DefaultPullOverConfig
  /\ park_and_go_config \in ParkAndGoConfigs
  /\ frame \in
       [reference_line_info :
          SeqsUpTo({ReferenceLineInfo(d, 0) : d \in {"east", "north", "west"}}, 2)
            \ {<<>>},
        obstacles : SeqsUpTo(ObstaclePolygons, MaxObstacles)]
  /\ NoCall

NextReady == CallCheckADCReadyToCruise

SpecReady == InitReady /\ [][NextReady]_vars

-----------------------------------------------------------------------------
(* SpecOverlap: one call of GetOverlapOnReferenceLine on a reference line  *)
(* whose four overlap lists hold up to MaxOverlaps entries each.           *)

OverlapIds == {"a", "b"}
RequestedIds == OverlapIds \cup {"c"}
OverlapTypes == {"SIGNAL", "STOP_SIGN", "PNC_JUNCTION", "YIELD_SIGN", "CROSSWALK"}
PathOverlaps == SeqsUpTo([object_id : OverlapIds], MaxOverlaps)

InitOverlap ==
  /\ pull_over_status = DefaultPullOverStatus
  /\ vehicle_state = DefaultVehicleState
  /\ reference_line_info \in
       {[reference_line |-> ReferenceLine("east", sig, stop, pnc, yield),
         adc_end_s |-> 0] :
          sig \in PathOverlaps, stop \in PathOverlaps,
          pnc \in PathOverlaps, yield \in PathOverlaps}
  /\ scenario_config = DefaultPullOverConfig
  /\ park_and_go_config = DefaultParkAndGoConfig
  /\ frame = DefaultFrame
  /\ NoCall

NextOverlap ==
  \E overlap_id \in RequestedIds, overlap_type \in OverlapTypes :
    CallGetOverlapOnReferenceLine(overlap_id, overlap_type)

SpecOverlap == InitOverlap /\ [][NextOverlap]_vars

-----------------------------------------------------------------------------
(* Quantities the properties below speak of, computed from the state *)

TargetProperlySet ==
  /\ pull_over_status.is_feasible
  /\ pull_over_status.has_position
  /\ pull_over_status.has_x
  /\ pull_over_status.has_y
  /\ pull_over_status.has_theta

\* station and lateral offset of a point on the reference line of the cycle
StationOf(p) == XYToSL(reference_line_info.reference_line, p).s
LateralOf(p) == XYToSL(reference_line_info.reference_line, p).l

\* distance = adcFrontEdgeStation - targetS
FrontEdgeDistance == reference_line_info.adc_end_s - StationOf(TargetPosition)

SDiffOf(adc_position, target_position) ==
  StationOf(target_position) - StationOf(adc_position)
LDiffOf(adc_position, target_position) ==
  Fabs(LateralOf(target_position) - LateralOf(adc_position))
ThetaDiffOf(adc_theta, target_theta) ==
  AngFabs(NormalizeAngle(AngSub(target_theta, adc_theta)))

Stopped == vehicle_state.linear_velocity <= vehicle_param.max_abs_speed_when_stopped

\* lateral and heading error of the vehicle against the target within tolerance
LateralWithin ==
  LDiffOf(AdcPosition, TargetPosition) <= scenario_config.max_l_error_to_end_point
HeadingWithin ==
  AngLeq(ThetaDiffOf(vehicle_state.heading, pull_over_status.theta),
         scenario_config.max_theta_error_to_end_point)
StationWithin ==
  /\ SDiffOf(AdcPosition, TargetPosition) >= 0
  /\ SDiffOf(AdcPosition, TargetPosition) <= scenario_config.max_s_error_to_end_point

InParkCheckRange ==
  /\ -6 < FrontEdgeDistance
  /\ FrontEdgeDistance < scenario_config.pass_destination_threshold

PullOverEntryPoints ==
  {"CheckADCPullOver", "CheckADCPullOverPathPoint", "CheckADCPullOverOpenSpace"}

-----------------------------------------------------------------------------
(* Properties *)

\* C1 as stated: with the target infeasible or missing its position, x, y or
\* theta, each of the four classifier entry points returns UNKNOWN.
C1_AllEntryPointsUnknown ==
  (/\ fn \in PullOverEntryPoints \cup {"CheckADCParkAndGoCruiseCompleted"}
   /\ ~TargetProperlySet)
    => ret = "UNKNOWN"

\* C1 amended: with the target infeasible or missing its position, x, y or
\* theta, each of the three pull-over entry points returns UNKNOWN; the
\* park-and-go cruise check returns CRUISING or CRUISE_COMPLETE, never UNKNOWN.
C1_PullOverEntryPointsUnknown ==
  /\ (fn \in PullOverEntryPoints /\ ~TargetProperlySet) => ret = "UNKNOWN"
  /\ fn = "CheckADCParkAndGoCruiseCompleted"
       => ret \in {"CRUISING", "CRUISE_COMPLETE"}

C1_Witness ==
  /\ fn = "CheckADCPullOverOpenSpace"
  /\ pull_over_status.is_feasible
  /\ pull_over_status.has_x
  /\ pull_over_status.has_y
  /\ ~pull_over_status.has_theta
  /\ AdcPosition = TargetPosition
  /\ ret = "UNKNOWN"

\* C2: in CheckADCPullOver with a properly set target, a front-edge distance
\* at or beyond pass_destination_threshold gives PASS_DESTINATION whatever the
\* speed and the lateral, heading and station errors are.
C2_OvershootFirst ==
  (/\ fn = "CheckADCPullOver"
   /\ TargetProperlySet
   /\ FrontEdgeDistance >= scenario_config.pass_destination_threshold)
    => ret = "PASS_DESTINATION"

C2_Witness ==
  /\ fn = "CheckADCPullOver"
  /\ TargetProperlySet
  /\ FrontEdgeDistance >= scenario_config.pass_destination_threshold
  /\ vehicle_state.linear_velocity = 0
  /\ LateralWithin /\ HeadingWithin /\ StationWithin
  /\ ret = "PASS_DESTINATION"

\* C3 as stated: in CheckADCPullOver a speed above max_abs_speed_when_stopped
\* gives APPROACHING for every front-edge distance and every position error.
C3_MovingIsApproaching ==
  (fn = "CheckADCPullOver" /\ ~Stopped) => ret = "APPROACHING"

\* C3 amended: in CheckADCPullOver with a properly set target and a front-edge
\* distance below pass_destination_threshold, a speed above
\* max_abs_speed_when_stopped gives APPROACHING whatever the lateral, heading
\* and station errors are.
C3_MovingBeforeTargetIsApproaching ==
  (/\ fn = "CheckADCPullOver"
   /\ TargetProperlySet
   /\ FrontEdgeDistance < scenario_config.pass_destination_threshold
   /\ ~Stopped)
    => ret = "APPROACHING"

C3_Witness ==
  /\ fn = "CheckADCPullOver"
  /\ TargetProperlySet
  /\ InParkCheckRange
  /\ ~Stopped
  /\ LateralWithin /\ HeadingWithin /\ StationWithin
  /\ ret = "APPROACHING"

\* C4: in CheckADCPullOver with a properly set target, the front-edge distance
\* strictly between -3 m and pass_destination_threshold, the vehicle stopped,
\* the heading error within tolerance and 0 <= sDiff <= max_s_error, the result
\* is PARK_COMPLETE when lDiff <= max_l_error and PARK_FAIL when lDiff exceeds it.
C4_ParkCompleteOrLateralFail ==
  (/\ fn = "CheckADCPullOver"
   /\ TargetProperlySet
   /\ InParkCheckRange
   /\ Stopped
   /\ HeadingWithin
   /\ StationWithin)
    => ret = IF LateralWithin THEN "PARK_COMPLETE" ELSE "PARK_FAIL"

C4_Witness ==
  /\ fn = "CheckADCPullOver"
  /\ TargetProperlySet
  /\ InParkCheckRange
  /\ Stopped
  /\ HeadingWithin
  /\ StationWithin
  /\ LDiffOf(AdcPosition, TargetPosition)
       = scenario_config.max_l_error_to_end_point + 1
  /\ ret = "PARK_FAIL"

\* C10: CheckADCPullOver returns PARK_COMPLETE only with the target properly
\* set, the vehicle stopped, the front-edge distance strictly between -3 m and
\* pass_destination_threshold, and the lateral, heading and station errors
\* within tolerance, the station error not negative.
C10_NoPrematureParkComplete ==
  (fn = "CheckADCPullOver" /\ ret = "PARK_COMPLETE")
    => /\ TargetProperlySet
       /\ Stopped
       /\ InParkCheckRange
       /\ LateralWithin
       /\ HeadingWithin
       /\ StationWithin

C10_Witness ==
  /\ fn = "CheckADCPullOver"
  /\ ret = "PARK_COMPLETE"
  /\ SDiffOf(AdcPosition, TargetPosition) > 0
  /\ SDiffOf(AdcPosition, TargetPosition)
       = scenario_config.max_s_error_to_end_point
  /\ FrontEdgeDistance < 0

\* C5: CheckPullOverPositionBySL with the target behind the position
\* (sDiff < 0) returns false when check_s is set, and with check_s clear
\* returns the base verdict lDiff <= max_l_error and thetaDiff <= max_theta_error.
C5_StationSignSensitive ==
  (/\ fn = "CheckPullOverPositionBySL"
   /\ SDiffOf(args.adc_position, args.target_position) < 0)
    => ret = IF args.check_s
               THEN FALSE
               ELSE /\ LDiffOf(args.adc_position, args.target_position)
                         <= scenario_config.max_l_error_to_end_point
                    /\ AngLeq(ThetaDiffOf(args.adc_theta, args.target_theta),
                              scenario_config.max_theta_error_to_end_point)

C5_Witness ==
  /\ fn = "CheckPullOverPositionBySL"
  /\ SDiffOf(args.adc_position, args.target_position) = -1
  /\ LDiffOf(args.adc_position, args.target_position) = 0
  /\ ThetaDiffOf(args.adc_theta, args.target_theta) = Zero
  /\ args.check_s
  /\ ret = FALSE

\* the heading of the reference line at the station of the vehicle position
ReferenceHeadingAtAdc ==
  ReferenceTheta(reference_line_info.reference_line, StationOf(AdcPosition))

\* C6: each heading check compares the absolute value of the normalized
\* heading difference with its bound, so a full turn added to a heading
\* changes no verdict: CheckPullOverPositionBySL (check_s clear),
\* CheckPullOverPositionByDistance, CheckADCHeading and
\* CheckADCParkAndGoCruiseCompleted.
C6_HeadingChecksNormalized ==
  /\ (fn = "CheckPullOverPositionBySL" /\ ~args.check_s)
       => ret = (/\ LDiffOf(args.adc_position, args.target_position)
                      <= scenario_config.max_l_error_to_end_point
                 /\ AngLeq(ThetaDiffOf(args.adc_theta, args.target_theta),
                           scenario_config.max_theta_error_to_end_point))
  /\ fn = "CheckPullOverPositionByDistance"
       => ret = (/\ DistanceToLeq(args.adc_position, args.target_position,
                                  scenario_config.max_distance_error_to_end_point)
                 /\ AngLeq(ThetaDiffOf(args.adc_theta, args.target_theta),
                           scenario_config.max_theta_error_to_end_point))
  /\ fn = "CheckADCHeading"
       => ret = AngLess(AngFabs(NormalizeAngle(
                          AngSub(args.adc_heading, ReferenceHeadingAtAdc))),
                        args.heading_diff_to_reference_line)
  /\ fn = "CheckADCParkAndGoCruiseCompleted"
       => (ret = "CRUISE_COMPLETE")
            = (/\ Fabs(LateralOf(AdcPosition)) < 1
               /\ AngLess(AngFabs(NormalizeAngle(
                            AngSub(vehicle_state.heading, ReferenceHeadingAtAdc))),
                          Angle(1, 0)))

\* C7: CheckADCParkAndGoCruiseCompleted returns CRUISE_COMPLETE exactly when
\* |l| < 0.5 m and |heading - reference heading| < 0.1 rad, both strict, and
\* CRUISING otherwise, whatever the config, the speed and the target are.
C7_CruiseCompleteIffStrictlyWithin ==
  fn = "CheckADCParkAndGoCruiseCompleted"
    => ret = IF /\ Fabs(LateralOf(AdcPosition)) < 1
                /\ AngLess(AngFabs(AngSub(vehicle_state.heading,
                                          ReferenceHeadingAtAdc)),
                           Angle(1, 0))
               THEN "CRUISE_COMPLETE"
               ELSE "CRUISING"

C7_Witness ==
  /\ fn = "CheckADCParkAndGoCruiseCompleted"
  /\ LateralOf(AdcPosition) = 0
  /\ AngSub(vehicle_state.heading, ReferenceHeadingAtAdc) = Angle(-1, 0)
  /\ vehicle_state.linear_velocity > 0
  /\ ~TargetProperlySet
  /\ ret = "CRUISING"

\* the vehicle box shifted forward along the heading by
\* front_obstacle_buffer + back_edge_to_center, as a polygon
ShiftedAdcPolygon ==
  LET d == park_and_go_config.front_obstacle_buffer
             + vehicle_param.back_edge_to_center
  IN  Polygon2d(Box2d(Vec2d(vehicle_state.x + d * Cos(vehicle_state.heading),
                            vehicle_state.y + d * Sin(vehicle_state.heading)),
                      vehicle_state.heading,
                      vehicle_param.length, vehicle_param.width))

\* the obstacles of the frame whose footprint overlaps the shifted box
OverlappingObstacles ==
  {i \in 1 .. Len(frame.obstacles) :
     HasOverlap(ShiftedAdcPolygon, frame.obstacles[i])}

\* the heading within heading_buffer of the first reference line of the frame
AlignedWithFirstReferenceLine ==
  LET line == frame.reference_line_info[1].reference_line
  IN  AngLess(AngFabs(NormalizeAngle(
                AngSub(vehicle_state.heading,
                       ReferenceTheta(line, XYToSL(line, AdcPosition).s)))),
              park_and_go_config.heading_buffer)

\* the sequence without its i-th entry
RemoveAt(seq, i) == SubSeq(seq, 1, i - 1) \o SubSeq(seq, i + 1, Len(seq))

\* C8: CheckADCReadyToCruise returns true exactly when no obstacle footprint
\* overlaps the forward-shifted vehicle box and the heading is aligned with the
\* first reference line; with the heading aligned and one obstacle overlapping,
\* it returns false, and true on the frame without that obstacle.
C8_ReadyIffClearAndAligned ==
  fn = "CheckADCReadyToCruise"
    => /\ ret = (OverlappingObstacles = {} /\ AlignedWithFirstReferenceLine)
       /\ \A i \in OverlappingObstacles :
            (AlignedWithFirstReferenceLine /\ OverlappingObstacles = {i})
              => /\ ret = FALSE
                 /\ CheckADCReadyToCruise(
                      [frame EXCEPT !.obstacles = RemoveAt(frame.obstacles, i)],
                      park_and_go_config)

C8_Witness ==
  /\ fn = "CheckADCReadyToCruise"
  /\ Len(frame.obstacles) = 2
  /\ OverlappingObstacles = {2}
  /\ NormalizeAngle(AngSub(vehicle_state.heading,
                           ReferenceTheta(frame.reference_line_info[1].reference_line,
                                          0))) = Zero
  /\ ret = FALSE

\* the overlap list a kind selects, by name; none for any other kind
ListOfKind(kind) ==
  CASE kind = "SIGNAL" -> "signal_overlaps"
    [] kind = "STOP_SIGN" -> "stop_sign_overlaps"
    [] kind = "PNC_JUNCTION" -> "pnc_junction_overlaps"
    [] kind = "YIELD_SIGN" -> "yield_sign_overlaps"
    [] OTHER -> "nullptr"

OverlapLists ==
  [signal_overlaps |-> reference_line_info.reference_line.signal_overlaps,
   stop_sign_overlaps |-> reference_line_info.reference_line.stop_sign_overlaps,
   pnc_junction_overlaps |->
     reference_line_info.reference_line.pnc_junction_overlaps,
   yield_sign_overlaps |-> reference_line_info.reference_line.yield_sign_overlaps,
   nullptr |-> <<>>]

\* the indices of the entries of the list of a kind that carry an id
MatchesIn(kind, id) ==
  {i \in 1 .. Len(OverlapLists[ListOfKind(kind)]) :
     OverlapLists[ListOfKind(kind)][i].object_id = id}

\* C9: GetOverlapOnReferenceLine returns the first entry with the requested id
\* of the list the requested kind selects, and nullptr when that list has no
\* such entry (whatever the other lists hold) or the kind is none of the four.
C9_FirstMatchInSelectedList ==
  fn = "GetOverlapOnReferenceLine"
    => LET matches == MatchesIn(args.overlap_type, args.overlap_id)
       IN  IF matches = {}
             THEN ret = Nullptr
             ELSE /\ ret.list = ListOfKind(args.overlap_type)
                  /\ ret.index \in matches
                  /\ \A i \in matches : ret.index <= i

C9_Witness ==
  /\ fn = "GetOverlapOnReferenceLine"
  /\ args.overlap_type = "STOP_SIGN"
  /\ MatchesIn("STOP_SIGN", args.overlap_id) = {}
  /\ Len(reference_line_info.reference_line.stop_sign_overlaps) > 0
  /\ MatchesIn("SIGNAL", args.overlap_id) # {}
  /\ MatchesIn("YIELD_SIGN", args.overlap_id) # {}
  /\ ret = Nullptr

====
